---- MODULE Spec2Model ----
(***************************************************************************)
(* typeless: TypeErased<C>, a fixed-capacity, 8-byte aligned byte buffer   *)
(* that stores the object representation of a value of any type.           *)
(*                                                                         *)
(* The model is a client program that owns at most one TypeErased<C>: it   *)
(* creates a value, constructs the container (new / new_unchecked /        *)
(* empty), calls the accessors, and finally takes the value out or drops   *)
(* the container.  A value is its type name and its object representation  *)
(* (a sequence of bytes, each possibly uninitialized).                     *)
(***************************************************************************)
EXTENDS Integers, Sequences, FiniteSets, TLC

(* ---------------------------- bounds ----------------------------------- *)
CapSlack == 0
MaxAddr == 16
MaxVal == 1
MaxWrites == 1

(* ------------------------- the type universe --------------------------- *)
\* MaybeUninit::<u8>::uninit(): a byte with no value
Uninit == -1

\* the types the client instantiates T with
TypeNames == {"unit", "u8", "u16", "u64", "Pair", "Guard", "Align16"}

\* size_of::<T>()
size_of(T) ==
    CASE T = "unit" -> 0
      [] T = "u8" -> 1
      [] T = "u16" -> 2
      [] T = "u64" -> 8
      [] T = "Pair" -> 4
      [] T = "Guard" -> 1
      [] T = "Align16" -> 16

\* align_of::<T>()
align_of(T) ==
    CASE T = "unit" -> 1
      [] T = "u8" -> 1
      [] T = "u16" -> 2
      [] T = "u64" -> 8
      [] T = "Pair" -> 2
      [] T = "Guard" -> 1
      [] T = "Align16" -> 16

\* byte offsets of T's representation that are padding
\* (Pair is #[repr(C)] struct { a: u8, b: u16 })
padding_of(T) == IF T = "Pair" THEN {1} ELSE {}

\* whether T has a destructor (Guard counts itself in a global counter)
needs_drop(T) == T = "Guard"

RECURSIVE to_le_bytes(_, _)
to_le_bytes(n, len) ==
    IF len = 0 THEN <<>> ELSE <<n % 256>> \o to_le_bytes(n \div 256, len - 1)

\* sample integers whose two low bytes differ from one another
SampleInts == {(MaxVal - i) + 256 * i : i \in 0..MaxVal}

\* the object representations of the sample values of T
ReprsOf(T) ==
    IF T = "Pair"
    THEN {<<n % 256, Uninit>> \o to_le_bytes(n, 2) : n \in SampleInts}
    ELSE {to_le_bytes(n, size_of(T)) : n \in SampleInts}

ValuesOf(T) == {[ty |-> T, bytes |-> b] : b \in ReprsOf(T)}

NoValue == [ty |-> "none", bytes |-> <<>>]
UnitValue == [ty |-> "unit", bytes |-> <<>>]

\* T's == : the non-padding bytes agree
value_eq(a, b) ==
    /\ a.ty = b.ty
    /\ Len(a.bytes) = Len(b.bytes)
    /\ \A i \in 1..Len(a.bytes) :
          (i - 1) \in padding_of(a.ty) \/ a.bytes[i] = b.bytes[i]

(* --------------------------- the container ----------------------------- *)
\* #[repr(C, align(8))]
ContainerAlign == 8

\* repr(C): buf is the first field
BufOffset == 0

StackAddrsUnaligned == 1..MaxAddr

\* the addresses a TypeErased<C> can be placed at
StackAddrs == {a \in 1..MaxAddr : a % ContainerAlign = 0}

\* the capacities the client instantiates C with: every type's size, and up
\* to CapSlack bytes more
Capacities == {size_of(T) + d : T \in TypeNames, d \in 0..CapSlack}

emptyZeroed(C) == [i \in 1..C |-> 0]

\* TypeErased::<C>::empty(): buf = [U8_UNINIT; C]
empty(C) == [i \in 1..C |-> Uninit]

as_ptrField(addr) == addr + BufOffset + 1

\* TypeErased::as_ptr::<T>(): self.buf.as_ptr().cast()
as_ptr(addr) == addr + BufOffset

\* TypeErased::as_mut_ptr::<T>(): self.buf.as_mut_ptr().cast()
as_mut_ptr(addr) == addr + BufOffset

\* a typed copy of a T: padding bytes carry no value
typed_copy(T, bytes) ==
    [i \in 1..Len(bytes) |-> IF (i - 1) \in padding_of(T) THEN Uninit ELSE bytes[i]]

ptr_writeShifted(buf, off, v) ==
    [i \in 1..Len(buf) |->
        IF i - 1 >= off + 1 /\ i - 1 < off + 1 + Len(v.bytes)
        THEN typed_copy(v.ty, v.bytes)[i - off - 1] ELSE buf[i]]

\* ptr::write(ptr, value) into a buffer, ptr being off bytes past its start;
\* the part of the buffer the write covers (the in-bounds part)
ptr_write(buf, off, v) ==
    [i \in 1..Len(buf) |->
        IF i - 1 >= off /\ i - 1 < off + Len(v.bytes)
        THEN typed_copy(v.ty, v.bytes)[i - off] ELSE buf[i]]

\* ptr::read(ptr) of a T inside the buffer
ptr_read(buf, off, T) ==
    typed_copy(T, [i \in 1..size_of(T) |-> buf[off + i]])

\* whether a T may be read at ptr: in bounds, aligned, every non-padding byte
\* initialized
readable(buf, addr, ptr, T) ==
    /\ ptr - addr >= 0
    /\ ptr - addr + size_of(T) <= Len(buf)
    /\ ptr % align_of(T) = 0
    /\ \A i \in 1..size_of(T) :
          (i - 1) \in padding_of(T) \/ buf[ptr - addr + i] # Uninit

(* ------------------ outcomes of the constructors ----------------------- *)
\* a panic: no container is returned; `value` is dropped when the panic
\* unwinds and is not when the build aborts on panic
Panic(msg, v) ==
    {[status |-> "panic", msg |-> msg, buf |-> <<>>, oob |-> FALSE, drops |-> d] :
        d \in IF needs_drop(v.ty) THEN {0, 1} ELSE {0}}

Built(buf) ==
    {[status |-> "ok", msg |-> "", buf |-> buf, oob |-> FALSE, drops |-> 0]}

\* an out-of-bounds or misaligned ptr::write is undefined behaviour: the
\* store lands (its part past the buffer landing in the memory behind it), or
\* the process faults on it and no container is returned
Undefined(C, off, v) ==
    {[status |-> "ub", msg |-> "", buf |-> ptr_write(empty(C), off, v),
      oob |-> off + Len(v.bytes) > C, drops |-> 0],
     [status |-> "fault", msg |-> "", buf |-> <<>>, oob |-> FALSE, drops |-> 0]}

new_uncheckedDropsSource(C, debug, v, addr) ==
    {[status |-> "ok", msg |-> "", buf |-> ptr_write(empty(C), 0, v), oob |-> FALSE,
      drops |-> IF needs_drop(v.ty) THEN 1 ELSE 0]}

\* TypeErased::<C>::new_unchecked::<T>(value), `this` living at addr
new_unchecked(C, debug, v, addr) ==
    IF debug /\ ~(size_of(v.ty) <= C) THEN Panic("unchecked size", v)
    ELSE IF debug /\ ~(align_of(v.ty) <= 8) THEN Panic("unchecked align", v)
    ELSE LET this == empty(C)
             ptr == as_mut_ptr(addr)
         IN  IF debug /\ ptr % 8 # 0 THEN Panic("ptr align", v)
             ELSE IF (ptr - addr) + size_of(v.ty) <= C /\ ptr % align_of(v.ty) = 0
                  THEN Built(ptr_write(this, ptr - addr, v))
                  ELSE Undefined(C, ptr - addr, v)

newNoSizeCheck(C, debug, v, addr) ==
    IF ~(align_of(v.ty) <= 8) THEN Panic("align", v)
    ELSE new_unchecked(C, debug, v, addr)

newStrictAlign(C, debug, v, addr) ==
    IF ~(size_of(v.ty) <= C) THEN Panic("size", v)
    ELSE IF ~(align_of(v.ty) < 8) THEN Panic("align", v)
    ELSE new_unchecked(C, debug, v, addr)

\* TypeErased::<C>::new::<T>(value)
new(C, debug, v, addr) ==
    IF ~(size_of(v.ty) <= C) THEN Panic("size", v)
    ELSE IF ~(align_of(v.ty) <= 8) THEN Panic("align", v)
    ELSE new_unchecked(C, debug, v, addr)

(* ------------------------- thread-safety markers ------------------------ *)
\* the fields of struct TypeErased<const C: usize>
Fields == {"[MaybeUninit<u8>; C]", "PhantomData<*const ()>"}

FieldsNoMarker == {"[MaybeUninit<u8>; C]"}

\* whether a field type implements the auto trait (Send or Sync): bytes do,
\* a raw pointer (and so PhantomData of one) does not
field_impls(f, trait) == f = "[MaybeUninit<u8>; C]"

auto_implsNoMarker(trait) == \A f \in FieldsNoMarker : field_impls(f, trait)

\* TypeErased<C>: Send / TypeErased<C>: Sync, as the compiler derives it: a
\* struct with no explicit impl has an auto trait iff all its fields have it
auto_impls(trait) == \A f \in Fields : field_impls(f, trait)

drop_glueAsStored(stored) == IF needs_drop(stored.ty) THEN 1 ELSE 0

\* destructor runs of the stored value when a TypeErased<C> is dropped: the
\* struct has no Drop impl and its fields ([MaybeUninit<u8>; C], PhantomData)
\* have no drop glue
drop_glue(stored) == 0

takeLeavesLive(cs) == "live"

\* what becomes of the container in assume_type_take(self): self is moved in
moved_by_take(cs) == "moved"

(* ------------------------------ state ---------------------------------- *)
VARIABLES
    C,          \* the capacity, a const generic
    cstate,     \* "none" | "live" | "moved" | "dropped": the container binding
    origin,     \* the constructor that made the container
    addr,       \* the address the container lives at
    buf,        \* buf: [MaybeUninit<u8>; C]
    oob,        \* whether a byte outside the buffer was written
    value,      \* the client's value before it is passed to a constructor
    orig,       \* the value that was passed to the constructor
    taken,      \* the value assume_type_take returned
    takenState, \* "none" | "owned" | "dropped"
    counter,    \* live Guard resources
    dropCount,  \* how many times a Guard destructor has run
    status,     \* "ok" | "panic" | "ub" (undefined behaviour happened) | "fault"
    msg,        \* the panic message
    obs,        \* what the last accessor call returned
    writes      \* mutations of the buffer since construction

vars == <<C, cstate, origin, addr, buf, oob, value, orig, taken, takenState,
          counter, dropCount, status, msg, obs, writes>>

NoObs == [op |-> "none", ty |-> "none", bytes |-> <<>>, ptr |-> 0, ok |-> TRUE,
          again |-> FALSE]

\* the record of a call's result; again: a borrow that repeats the borrow
\* before it
Obs(op, T, bytes, ptr, ok) ==
    [op |-> op, ty |-> T, bytes |-> bytes, ptr |-> ptr, ok |-> ok,
     again |-> op = "ref" /\ obs.op = op /\ obs.ty = T /\ obs.ok]

Init ==
    /\ C \in Capacities
    /\ cstate = "none"
    /\ origin = "none"
    /\ addr = 0
    /\ buf = <<>>
    /\ oob = FALSE
    /\ value = NoValue
    /\ orig = NoValue
    /\ taken = NoValue
    /\ takenState = "none"
    /\ counter = 0
    /\ dropCount = 0
    /\ status = "ok"
    /\ msg = ""
    /\ obs = NoObs
    /\ writes = 0

Running == status = "ok"
Live == Running /\ cstate = "live"

\* the client creates a value of type T (a Guard counts itself)
MakeValue ==
    /\ Running /\ cstate = "none" /\ value = NoValue
    /\ \E T \in TypeNames : \E v \in ValuesOf(T) :
          /\ value' = v
          /\ counter' = counter + (IF needs_drop(T) THEN 1 ELSE 0)
    /\ UNCHANGED <<C, cstate, origin, addr, buf, oob, orig, taken, takenState,
                   dropCount, status, msg, obs, writes>>

\* the effect of a constructor call whose outcome is out, the returned
\* container being placed at a (debug: the build has debug_assertions; this:
\* the address of the constructor's local)
Construct(name, out, a) ==
    /\ origin' = name
    /\ status' = out.status
    /\ msg' = out.msg
    /\ cstate' = IF out.status \in {"panic", "fault"} THEN "none" ELSE "live"
    /\ addr' = IF out.status \in {"panic", "fault"} THEN 0 ELSE a
    /\ buf' = out.buf
    /\ oob' = out.oob
    /\ orig' = value
    /\ value' = NoValue
    /\ dropCount' = dropCount + out.drops
    /\ counter' = counter - out.drops
    /\ UNCHANGED <<C, taken, takenState, obs, writes>>

\* let c = TypeErased::<C>::new(value);
New ==
    /\ Running /\ cstate = "none" /\ value # NoValue
    /\ \E debug \in BOOLEAN, this \in StackAddrs, a \in StackAddrs :
          \E out \in new(C, debug, value, this) : Construct("new", out, a)

\* let c = unsafe { TypeErased::<C>::new_unchecked(value) };
NewUnchecked ==
    /\ Running /\ cstate = "none" /\ value # NoValue
    /\ \E debug \in BOOLEAN, this \in StackAddrs, a \in StackAddrs :
          \E out \in new_unchecked(C, debug, value, this) :
              Construct("new_unchecked", out, a)

\* let c = TypeErased::<C>::empty();
Empty ==
    /\ Running /\ cstate = "none" /\ value = NoValue /\ origin = "none"
    /\ \E a \in StackAddrs :
          /\ origin' = "empty"
          /\ cstate' = "live"
          /\ addr' = a
          /\ buf' = empty(C)
          /\ orig' = UnitValue
    /\ UNCHANGED <<C, oob, value, taken, takenState, counter, dropCount,
                   status, msg, obs, writes>>

\* c.raw()
Raw ==
    /\ Live
    /\ obs' = Obs("raw", "bytes", buf, 0, TRUE)
    /\ UNCHANGED <<C, cstate, origin, addr, buf, oob, value, orig, taken,
                   takenState, counter, dropCount, status, msg, writes>>

\* the offsets the client writes at through raw_mut(): the first and the
\* last byte of the buffer
WriteOffsets(cap) == {0, cap - 1} \cap (0..(cap - 1))

\* c.raw_mut()[off] = MaybeUninit::uninit() or MaybeUninit::new(0xFF)
RawMut ==
    /\ Live /\ writes < MaxWrites
    /\ \E off \in WriteOffsets(C), b \in {Uninit, 255} :
          buf' = [buf EXCEPT ![off + 1] = b]
    /\ writes' = writes + 1
    /\ obs' = Obs("raw_mut", "bytes", buf, 0, TRUE)
    /\ UNCHANGED <<C, cstate, origin, addr, oob, value, orig, taken,
                   takenState, counter, dropCount, status, msg>>

\* c.as_ptr::<T>(), for any T: the cast does not change the address
AsPtr ==
    /\ Live
    /\ obs' = Obs("as_ptr", "any", <<>>, as_ptr(addr), TRUE)
    /\ UNCHANGED <<C, cstate, origin, addr, buf, oob, value, orig, taken,
                   takenState, counter, dropCount, status, msg, writes>>

\* c.as_mut_ptr::<T>(), for any T
AsMutPtr ==
    /\ Live
    /\ obs' = Obs("as_mut_ptr", "any", <<>>, as_mut_ptr(addr), TRUE)
    /\ UNCHANGED <<C, cstate, origin, addr, buf, oob, value, orig, taken,
                   takenState, counter, dropCount, status, msg, writes>>

\* whether the buffer holds a valid live T (the contract of the typed
\* accessors): a T can be read at ptr, and a T that owns a resource is the
\* value that was stored
holds_valid(ptr, T) ==
    /\ readable(buf, addr, ptr, T)
    /\ needs_drop(T) => orig.ty = T

\* a typed access that breaks its contract is undefined behaviour: the read
\* may fault, or yield whatever bytes of the buffer lie under the pointer
TypedUB(T) ==
    \/ /\ status' = "fault"
       /\ obs' = Obs("ub", "any", <<>>, as_ptr(addr), FALSE)
    \/ /\ status' = "ub"
       /\ obs' = Obs("ub", "any", SubSeq(buf, 1, IF size_of(T) <= C THEN size_of(T) ELSE C),
                     as_ptr(addr), FALSE)

\* unsafe { c.assume_type_ref::<T>() }
AssumeTypeRef ==
    /\ Live
    /\ \E T \in TypeNames :
          LET ptr == as_ptr(addr) IN
          IF holds_valid(ptr, T)
          THEN /\ obs' = Obs("ref", T, ptr_read(buf, ptr - addr, T), ptr, TRUE)
               /\ status' = status
          ELSE TypedUB(T)
    /\ UNCHANGED <<C, cstate, origin, addr, buf, oob, value, orig, taken,
                   takenState, counter, dropCount, msg, writes>>

\* unsafe { *c.assume_type_mut::<T>() = ... }: the client updates the T in
\* place through the mutable reference (no destructor runs)
AssumeTypeMut ==
    /\ Live /\ writes < MaxWrites
    /\ \E T \in TypeNames :
          LET ptr == as_mut_ptr(addr) IN
          IF holds_valid(ptr, T)
          THEN /\ \E w \in ValuesOf(T) : buf' = ptr_write(buf, ptr - addr, w)
               /\ obs' = Obs("mut", T, ptr_read(buf, ptr - addr, T), ptr, TRUE)
               /\ status' = status
          ELSE TypedUB(T) /\ buf' = buf
    /\ writes' = writes + 1
    /\ UNCHANGED <<C, cstate, origin, addr, oob, value, orig, taken,
                   takenState, counter, dropCount, msg>>

\* let t = unsafe { c.assume_type_take::<T>() };
AssumeTypeTake ==
    /\ Live
    /\ \E T \in TypeNames :
          LET ptr == as_ptr(addr) IN
          IF holds_valid(ptr, T)
          THEN /\ taken' = [ty |-> T, bytes |-> ptr_read(buf, ptr - addr, T)]
               /\ takenState' = "owned"
               /\ obs' = Obs("take", T, ptr_read(buf, ptr - addr, T), ptr, TRUE)
               /\ status' = status
          ELSE TypedUB(T) /\ UNCHANGED <<taken, takenState>>
    /\ cstate' = moved_by_take(cstate)
    /\ dropCount' = dropCount + drop_glue(orig)
    /\ counter' = counter - drop_glue(orig)
    /\ UNCHANGED <<C, origin, addr, buf, oob, value, orig, msg, writes>>

\* drop(t): the taken value goes out of scope
DropTaken ==
    /\ Running /\ takenState = "owned"
    /\ takenState' = "dropped"
    /\ dropCount' = dropCount + (IF needs_drop(taken.ty) THEN 1 ELSE 0)
    /\ counter' = counter - (IF needs_drop(taken.ty) THEN 1 ELSE 0)
    /\ UNCHANGED <<C, cstate, origin, addr, buf, oob, value, orig, taken,
                   status, msg, obs, writes>>

\* drop(c): the container goes out of scope without a take
DropContainer ==
    /\ Live
    /\ cstate' = "dropped"
    /\ dropCount' = dropCount + drop_glue(orig)
    /\ counter' = counter - drop_glue(orig)
    /\ obs' = Obs("drop", "any", <<>>, 0, TRUE)
    /\ UNCHANGED <<C, origin, addr, buf, oob, value, orig, taken, takenState,
                   status, msg, writes>>

\* std::thread::spawn(move || c): requires TypeErased<C>: Send
TrySend ==
    /\ Live
    /\ obs' = Obs("send", "Send", <<>>, 0, auto_impls("Send"))
    /\ UNCHANGED <<C, cstate, origin, addr, buf, oob, value, orig, taken,
                   takenState, counter, dropCount, status, msg, writes>>

\* sharing &c with another thread: requires TypeErased<C>: Sync
TryShare ==
    /\ Live
    /\ obs' = Obs("share", "Sync", <<>>, 0, auto_impls("Sync"))
    /\ UNCHANGED <<C, cstate, origin, addr, buf, oob, value, orig, taken,
                   takenState, counter, dropCount, status, msg, writes>>

Next ==
    \/ MakeValue
    \/ New
    \/ NewUnchecked
    \/ Empty
    \/ Raw
    \/ RawMut
    \/ AsPtr
    \/ AsMutPtr
    \/ AssumeTypeRef
    \/ AssumeTypeMut
    \/ AssumeTypeTake
    \/ DropTaken
    \/ DropContainer
    \/ TrySend
    \/ TryShare

Spec == Init /\ [][Next]_vars

TypeOK ==
    /\ C \in Capacities
    /\ cstate \in {"none", "live", "moved", "dropped"}
    /\ status \in {"ok", "panic", "ub", "fault"}
    /\ cstate # "none" => Len(buf) = C

(* ------------------------------ claims ---------------------------------- *)
\* the container was made from a value by new or new_unchecked and its
\* buffer has not been written since
FromValue == origin \in {"new", "new_unchecked"} /\ cstate # "none" /\ writes = 0

Fits(T) == size_of(T) <= C /\ align_of(T) <= 8

\* C1: with size_of(T) <= C and align_of(T) <= 8, a container made by new(v)
\* or new_unchecked(v) holds a valid T, every assume_type_ref::<T>() on it
\* (the first and each repeated one) yields a value equal to v, and a borrow
\* leaves the buffer as it was
C1_BorrowRoundTrip ==
    /\ [](FromValue /\ Fits(orig.ty) /\ cstate = "live" /\ status = "ok" =>
            /\ holds_valid(as_ptr(addr), orig.ty)
            /\ (obs.op = "ref" /\ obs.ty = orig.ty =>
                   obs.ok /\ value_eq([ty |-> obs.ty, bytes |-> obs.bytes], orig)))
    /\ [][obs'.op = "ref" => buf' = buf /\ cstate' = cstate]_vars

C1_Witness ==
    /\ obs.op = "ref" /\ obs.again /\ obs.ty = orig.ty
    /\ origin = "new_unchecked" /\ writes = 0
    /\ orig.ty = "u16" /\ C > size_of(orig.ty)

\* C2: after new(v), assume_type_take::<T>() yields an owned value equal to
\* v and consumes the container: once taken, no accessor call (no second
\* take, no borrow) follows on it
C2_TakeRoundTrip ==
    /\ [](origin = "new" /\ writes = 0 /\ status = "ok" =>
            /\ (cstate = "live" => holds_valid(as_ptr(addr), orig.ty))
            /\ (takenState # "none" /\ taken.ty = orig.ty =>
                   value_eq(taken, orig) /\ cstate = "moved"))
    /\ [][takenState # "none" =>
            cstate' = "moved" /\ obs' = obs /\ taken' = taken /\ buf' = buf]_vars

C2_Witness ==
    /\ origin = "new" /\ writes = 0 /\ status = "ok"
    /\ takenState = "owned" /\ taken.ty = "u64" /\ orig.ty = "u64" /\ C = 8

\* C3: for a Guard (counter + 1 when made, - 1 when destroyed), across make,
\* new, assume_type_take::<Guard>, drop of the taken value, the destructor
\* runs once, at the last step: the counter is back at its start
C3_ResourceRoundTrip ==
    origin = "new" /\ orig.ty = "Guard" /\ status = "ok" =>
        /\ cstate = "live" => dropCount = 0 /\ counter = 1
        /\ takenState = "owned" /\ taken.ty = "Guard" => dropCount = 0 /\ counter = 1
        /\ takenState = "dropped" /\ taken.ty = "Guard" => dropCount = 1 /\ counter = 0

C3_Witness ==
    /\ origin = "new" /\ orig.ty = "Guard" /\ status = "ok"
    /\ takenState = "dropped" /\ taken.ty = "Guard" /\ counter = 0

\* C4: new::<T>(value) with size_of(T) > C panics with the size message (also
\* when the alignment is too large as well), returns no container and writes
\* no byte
C4_SizePanic ==
    origin = "new" /\ size_of(orig.ty) > C =>
        /\ status = "panic" /\ msg = "size"
        /\ cstate = "none" /\ buf = <<>> /\ ~oob

C4_Witness ==
    /\ origin = "new" /\ status = "panic" /\ msg = "size"
    /\ size_of(orig.ty) > C /\ align_of(orig.ty) > 8

\* C5: new::<T>(value) with align_of(T) > 8 and size_of(T) <= C panics with
\* the alignment message, returns no container and writes no byte; with
\* size_of(T) <= C and align_of(T) <= 8 it does not panic and returns a
\* container of C bytes
C5_AlignPanic ==
    origin = "new" /\ size_of(orig.ty) <= C =>
        /\ align_of(orig.ty) > 8 =>
              /\ status = "panic" /\ msg = "align"
              /\ cstate = "none" /\ buf = <<>> /\ ~oob
        /\ align_of(orig.ty) <= 8 =>
              /\ status \in {"ok", "ub", "fault"} /\ msg = ""
              /\ status # "ok" => obs.op = "ub"
              /\ cstate # "none" /\ Len(buf) = C /\ ~oob

C5_Witness ==
    /\ origin = "new" /\ status = "panic" /\ msg = "align"
    /\ size_of(orig.ty) <= C /\ align_of(orig.ty) > 8

\* C6: while the container has not been taken from, live or dropped, no
\* destructor of the stored value has run (a stored Guard stays counted);
\* once a container exists a destructor runs only in the drop of a taken value
C6_NoDropOnDiscard ==
    /\ cstate \in {"live", "dropped"} =>
          dropCount = 0 /\ (orig.ty = "Guard" => counter = 1)
    /\ cstate # "none" /\ dropCount > 0 =>
          takenState = "dropped" /\ needs_drop(taken.ty) /\ dropCount = 1

C6_Witness ==
    /\ cstate = "dropped" /\ orig.ty = "Guard" /\ writes > 0
    /\ dropCount = 0 /\ counter = 1

\* C7: as_ptr and as_mut_ptr return the address of the start of the buffer,
\* a multiple of 8, for every capacity and every state of the container; the
\* pointer-alignment debug assertion of new_unchecked never fires
C7_PointerAligned ==
    /\ obs.op \in {"as_ptr", "as_mut_ptr"} =>
          obs.ok /\ status = "ok" /\ obs.ptr = addr /\ obs.ptr % 8 = 0
    /\ cstate # "none" => as_ptr(addr) % 8 = 0 /\ as_mut_ptr(addr) % 8 = 0
    /\ msg # "ptr align"

C7_Witness ==
    /\ obs.op = "as_mut_ptr" /\ writes > 0 /\ origin = "new_unchecked"
    /\ obs.ptr = addr /\ C > 0

\* C8: an attempt to send the container to another thread, or to share it
\* with one, is rejected, for every capacity and every stored value
C8_NotSendSync ==
    obs.op \in {"send", "share"} => ~obs.ok

C8_Witness ==
    obs.op = "send" /\ ~obs.ok /\ orig.ty = "u64" /\ origin = "new"

\* C9: empty() yields, for every C, what new::<()>(()) yields: a buffer of C
\* bytes, all uninitialized, holding the unit value; new::<()>(()) never
\* panics and writes no byte
C9_EmptyIsUnit ==
    /\ origin = "empty" =>
          /\ cstate # "none" /\ status # "panic" /\ orig = UnitValue
          /\ writes = 0 =>
                /\ Len(buf) = C /\ \A i \in 1..C : buf[i] = Uninit
                /\ \A d \in BOOLEAN, a \in StackAddrs : new(C, d, UnitValue, a) = Built(buf)
    /\ origin = "new" /\ orig.ty = "unit" =>
          /\ cstate # "none" /\ status # "panic" /\ ~oob
          /\ writes = 0 => Len(buf) = C /\ \A i \in 1..C : buf[i] = Uninit

C9_Witness ==
    origin = "empty" /\ obs.op = "raw" /\ writes = 0 /\ C > 0 /\ Len(obs.bytes) = C

\* C10: a container made from a value of T with size_of(T) <= C has the
\* value's bytes at offsets 0 .. size_of(T) - 1 and uninitialized bytes at
\* offsets size_of(T) .. C - 1; the buffer has C bytes and no byte outside it
\* was written
C10_WriteFrame ==
    FromValue /\ size_of(orig.ty) <= C =>
        /\ Len(buf) = C /\ ~oob
        /\ \A i \in 1..C :
              buf[i] = IF i <= size_of(orig.ty)
                       THEN typed_copy(orig.ty, orig.bytes)[i] ELSE Uninit

C10_Witness ==
    /\ FromValue /\ origin = "new_unchecked" /\ cstate = "live"
    /\ orig.ty = "u16" /\ C > size_of(orig.ty)

====
